---- MODULE Spec2Model ----
(***************************************************************************)
(* Model of sync_imap_email.py (class SyncImapEmail): the IMAP migration   *)
(* engine that copies every message of every folder of a source account to *)
(* a destination account.  The engine is single-threaded; the model follows *)
(* its control flow command by command.  The two IMAP servers and imaplib   *)
(* are the environment: every wrapped command is answered OK, NO, BAD or    *)
(* dropped (ABORT/TIMEOUT), as imaplib reports it to the caller.            *)
(*                                                                         *)
(* Text (LIST lines, mailbox names, header values) is a sequence of         *)
(* one-character strings, so that the regular expressions and the           *)
(* str.split/replace/strip calls of the source are computed, not assumed.   *)
(***************************************************************************)
EXTENDS Integers, Sequences, FiniteSets, TLC

(***************************************************************************)
(* Text helpers: Python str operations used by the source.                 *)
(***************************************************************************)
SP == " "
DQ == "\""
BS == "\\"

Min(S) == CHOOSE x \in S : \A y \in S : x <= y

\* s[i..] starts with sub
StartsAt(s, sub, i) ==
    /\ i >= 1
    /\ i + Len(sub) - 1 <= Len(s)
    /\ SubSeq(s, i, i + Len(sub) - 1) = sub

\* str.find, 1-based; 0 when absent (Python's -1)
Find(s, sub) ==
    LET I == {i \in 1..Len(s) : StartsAt(s, sub, i)}
    IN  IF I = {} THEN 0 ELSE Min(I)

Contains(s, sub) == Find(s, sub) # 0

\* str.replace(old, new), old non-empty: every non-overlapping occurrence, left to right
RECURSIVE Replace(_, _, _)
Replace(s, old, new) ==
    IF Len(s) = 0 THEN <<>>
    ELSE IF StartsAt(s, old, 1)
         THEN new \o Replace(SubSeq(s, Len(old) + 1, Len(s)), old, new)
         ELSE <<s[1]>> \o Replace(Tail(s), old, new)

\* str.split(d)[-1]: what follows the last occurrence of d found left to right
RECURSIVE SplitLast(_, _)
SplitLast(s, d) ==
    LET i == Find(s, d)
    IN  IF i = 0 THEN s ELSE SplitLast(SubSeq(s, i + Len(d), Len(s)), d)

\* str.strip(chars)
RECURSIVE LStrip(_, _)
LStrip(s, chars) ==
    IF Len(s) > 0 /\ s[1] \in chars THEN LStrip(Tail(s), chars) ELSE s

RECURSIVE RStrip(_, _)
RStrip(s, chars) ==
    IF Len(s) > 0 /\ s[Len(s)] \in chars
    THEN RStrip(SubSeq(s, 1, Len(s) - 1), chars) ELSE s

StripChars(s, chars) == RStrip(LStrip(s, chars), chars)

Whitespace == {" ", "\t", "\n", "\r"}

Strip(s) == StripChars(s, Whitespace)

\* str.upper on the letters the model's names use
UpperTable ==
    [a |-> "A", b |-> "B", c |-> "C", d |-> "D", e |-> "E", f |-> "F", g |-> "G",
     h |-> "H", i |-> "I", j |-> "J", k |-> "K", l |-> "L", m |-> "M", n |-> "N",
     o |-> "O", p |-> "P", q |-> "Q", r |-> "R", s |-> "S", t |-> "T", u |-> "U",
     v |-> "V", w |-> "W", x |-> "X", y |-> "Y", z |-> "Z"]
UpperChar(c) == IF c \in DOMAIN UpperTable THEN UpperTable[c] ELSE c

Upper(s) == [i \in 1..Len(s) |-> UpperChar(s[i])]

\* ' '.join / concatenation of a sequence of texts with a separator
RECURSIVE Join(_, _)
Join(parts, sep) ==
    IF Len(parts) = 0 THEN <<>>
    ELSE IF Len(parts) = 1 THEN parts[1]
    ELSE parts[1] \o sep \o Join(Tail(parts), sep)

(***************************************************************************)
(* Names used by the modelled accounts.                                     *)
(***************************************************************************)
INBOX == <<"I", "N", "B", "O", "X">>
PrefixInbox == <<"I", "N", "B", "O", "X", ".">>
InboxSlash == <<"I", "N", "B", "O", "X", "/">>
GmailTag == <<"[", "G", "m", "a", "i", "l", "]">>
GmailCom == <<"g", "m", "a", "i", "l", ".", "c", "o", "m">>

Quoted(s) == <<DQ>> \o s \o <<DQ>>

LabelSent == <<"S", "e", "n", "t">>
LabelDrafts == <<"D", "r", "a", "f", "t", "s">>
LabelJunk == <<"J", "u", "n", "k">>
LabelTrash == <<"T", "r", "a", "s", "h">>
LabelArchive == <<"A", "r", "c", "h", "i", "v", "e">>

\* label_default = '|'.join(['Sent', 'Drafts', 'Junk', 'Trash', 'Archive'])
LabelDefault == <<LabelSent, LabelDrafts, LabelJunk, LabelTrash, LabelArchive>>

(***************************************************************************)
(* Namespace Resolver: _get_mailboxes_info, the mailbox filter of _migrate  *)
(* and _find_foldername, computed on raw LIST lines as the source does.     *)
(***************************************************************************)
\* One line of a LIST response: (\Attr \Attr) "<sep>" name
ListLine(attrs, sep, name) ==
    <<"(">> \o Join([i \in 1..Len(attrs) |-> <<BS>> \o attrs[i]], <<SP>>) \o <<")">>
        \o <<SP, DQ, sep, DQ, SP>> \o name

\* re.search('"(/|.)"', line).group(1): the first character standing between two
\* double quotes; "" when the pattern finds nothing (the source then raises)
SeparatorOf(line) ==
    LET I == {i \in 1..Len(line) :
                /\ i + 2 <= Len(line)
                /\ line[i] = DQ
                /\ line[i + 2] = DQ
                /\ line[i + 1] # "\n"}
    IN  IF I = {} THEN "" ELSE line[Min(I) + 1]

\* mailbox.split(f'"{separator}"')[-1].strip()
BareName(line, sep) == Strip(SplitLast(line, <<DQ, sep, DQ>>))

\* prefix = 'INBOX.' unless some mailbox other than INBOX lacks it; <<>> is None
PrefixOf(lines, sep) ==
    IF \E i \in 1..Len(lines) : \E mailbox \in {BareName(lines[i], sep)} :
          /\ Upper(mailbox) # INBOX
          /\ ~Contains(mailbox, PrefixInbox)
    THEN <<>>
    ELSE PrefixInbox

\* the characters of the class [Noselect|All|Flagged]
SkipClass == {"N", "o", "s", "e", "l", "c", "t", "|", "A", "F", "a", "g", "d"}

\* re.search(r'\\[Noselect|All|Flagged]', src_mailbox): a backslash followed by
\* one character of the class
MailboxNotCopied(line) ==
    \E i \in 1..Len(line) :
        /\ i + 1 <= Len(line)
        /\ line[i] = BS
        /\ line[i + 1] \in SkipClass

\* the characters of the class [\\|\.]
LabelClass == {BS, "|", "."}

\* positions where r'[\\|\.]+(label)' ends its run of class characters
LabelPositions(s) ==
    {i \in 1..Len(s) :
        /\ s[i] \in LabelClass
        /\ \E k \in 1..Len(LabelDefault) : StartsAt(s, LabelDefault[k], i + 1)}

\* re.search(fr'[\\|\.]+({label_default})', src_mailbox).group(1); <<>> for no match
LabelOf(s) ==
    IF LabelPositions(s) = {} THEN <<>>
    ELSE LET i == Min(LabelPositions(s))
             k == CHOOSE k \in 1..Len(LabelDefault) : StartsAt(s, LabelDefault[k], i + 1)
         IN  LabelDefault[k]

\* re.search(fr'[\\|\.]{label_default}', dst_mailbox)
HasLabel(line, label) ==
    \E i \in 1..Len(line) : line[i] \in LabelClass /\ StartsAt(line, label, i + 1)

\* the for loop of _find_foldername: the last destination line carrying the label
\* binds foldername; 0 when no line does and foldername stays unbound
LastLabelled(dstAll, label) ==
    LET I == {i \in 1..Len(dstAll) : HasLabel(dstAll[i], label)}
    IN  IF I = {} THEN 0 ELSE CHOOSE i \in I : \A j \in I : j <= i

\* _find_foldername raises UnboundLocalError: label found in the source name and
\* in no destination LIST line
FindFoldernameRaises(src_mailbox, dstAll) ==
    /\ LabelOf(src_mailbox) # <<>>
    /\ LastLabelled(dstAll, LabelOf(src_mailbox)) = 0

\* the else branch of _find_foldername: prefix and separator rewrite
RewriteName(src_mailbox, srcPrefix, srcSep, dstPrefix, dstSep) ==
    LET f1 == IF dstPrefix # srcPrefix /\ Upper(src_mailbox) # INBOX
              THEN IF srcPrefix # <<>>
                   THEN Replace(src_mailbox, srcPrefix, <<>>)
                   ELSE Quoted(PrefixInbox \o StripChars(src_mailbox, {DQ}))
              ELSE src_mailbox
    IN  IF srcSep # dstSep THEN Replace(f1, <<srcSep>>, <<dstSep>>) ELSE f1

\* the adjustments with [Gmail] and its separator dropped whatever the host
PostAdjustStripping(foldername, dstSep, dstHost) ==
    LET f1 == IF dstSep = "/" THEN Replace(foldername, InboxSlash, <<>>) ELSE foldername
    IN  Replace(f1, GmailTag \o <<dstSep>>, <<>>)

\* the two adjustments that end _find_foldername
PostAdjust(foldername, dstSep, dstHost) ==
    LET f1 == IF dstSep = "/" THEN Replace(foldername, InboxSlash, <<>>) ELSE foldername
    IN  IF ~Contains(dstHost, GmailCom) /\ Contains(f1, GmailTag)
        THEN Replace(f1, GmailTag \o <<dstSep>>, <<>>)
        ELSE f1

\* _find_foldername(src_mailbox), defined when FindFoldernameRaises is false
FindFoldername(src_mailbox, srcPrefix, srcSep, dstPrefix, dstSep, dstAll, dstHost) ==
    LET label == LabelOf(src_mailbox)
        foldername ==
            IF label # <<>>
            THEN BareName(dstAll[LastLabelled(dstAll, label)], dstSep)
            ELSE RewriteName(src_mailbox, srcPrefix, srcSep, dstPrefix, dstSep)
    IN  PostAdjust(foldername, dstSep, dstHost)

(***************************************************************************)
(* Messages.  A message is known by its content (an entry of MsgPool: the   *)
(* raw RFC 822 bytes); a mailbox holds it with flags and, at the            *)
(* destination, with the internal date the server gave it.                  *)
(***************************************************************************)
NoDate == [kind |-> "missing", wall |-> 0, tz |-> 0]
BadDate == [kind |-> "bad", wall |-> 0, tz |-> 0]
DateAt(w, z) == [kind |-> "ok", wall |-> w, tz |-> z]

\* header contents of the modelled messages: mid is the Message-ID header value
\* (<<>> when the header is absent), wall the Date header's clock reading in hours,
\* tz its UTC offset in hours
MsgPool ==
    << [mid |-> <<"<", "a", ">">>, from |-> "f1", to |-> "t1", date |-> DateAt(34, 0)],
       [mid |-> <<"<", "b", ">">>, from |-> "f1", to |-> "t1", date |-> DateAt(58, 1)],
       [mid |-> <<"<", "c", ">">>, from |-> "f2", to |-> "t1", date |-> NoDate],
       [mid |-> <<>>,              from |-> "f2", to |-> "t2", date |-> DateAt(34, 1)],
       [mid |-> <<>>,              from |-> "f2", to |-> "t3", date |-> BadDate],
       [mid |-> <<"<", "x", ">">>, from |-> "f3", to |-> "t3", date |-> DateAt(82, 1)] >>

\* the content delivered to the destination by somebody else during a run
ExternalMsg == Len(MsgPool)

FlagSeen == [sys |-> TRUE, name |-> "SEEN"]
FlagRecent == [sys |-> TRUE, name |-> "RECENT"]
FlagDeleted == [sys |-> TRUE, name |-> "DELETED"]
FlagForwarded == [sys |-> FALSE, name |-> "$FORWARDED"]

Angle == {"<", ">"}

\* the longest run of characters other than < and > that starts at i
RECURSIVE Run(_, _)
Run(s, i) ==
    IF i > Len(s) \/ s[i] \in Angle THEN <<>> ELSE <<s[i]>> \o Run(s, i + 1)

\* number of whitespace characters from i on
RECURSIVE SpaceRun(_, _)
SpaceRun(s, i) ==
    IF i <= Len(s) /\ s[i] \in Whitespace THEN 1 + SpaceRun(s, i + 1) ELSE 0

\* r'[\r\n\s]*\<?([^\<\>]+)\>?' matched at position p: group(1), <<>> for no match
MsgIdAt(s, p) ==
    LET w == SpaceRun(s, p)
        q == p + w
    IN  IF q + 1 <= Len(s) /\ s[q] = "<" /\ s[q + 1] \notin Angle THEN Run(s, q + 1)
        ELSE IF q <= Len(s) /\ s[q] \notin Angle THEN Run(s, q)
        ELSE IF w >= 1 THEN Run(s, q - 1)
        ELSE <<>>

\* re.search(r'[\r\n\s]*\<?([^\<\>]+)\>?', header.get('Message-ID', '')): group(1)
\* of the leftmost match, <<>> when there is none (msg_id is None)
MsgIdOf(value) ==
    LET P == {p \in 1..Len(value) : MsgIdAt(value, p) # <<>>}
    IN  IF P = {} THEN <<>> ELSE MsgIdAt(value, Min(P))

\* the time zone of the host that runs the engine, in hours east of UTC
LocalTz == 1

\* time.mktime(received.timetuple()): the clock reading taken as local time
Mktime(wall) == wall - LocalTz

\* imaplib.Time2Internaldate(seconds): local clock reading with the local offset
Time2Internaldate(epoch) == [wall |-> epoch + LocalTz, tz |-> LocalTz]

\* the instant a clock reading with an offset denotes
Instant(wall, tz) == wall - tz

\* .strftime('%d-%b-%Y') of the parsed Date: its calendar day
SentOnDay(date) == date.wall \div 24

\* lines 835-840 of _migrate: the date passed to APPEND; "none" is None
Received(date) ==
    IF date.kind = "ok"
    THEN [kind |-> "date", at |-> Time2Internaldate(Mktime(date.wall))]
    ELSE [kind |-> "none", at |-> [wall |-> 0, tz |-> 0]]

\* re.findall(r'\\\w+', data[0].decode().upper()) without '\\RECENT'
ParseFlags(flags) == {f \in flags : f.sys} \ {FlagRecent}

(***************************************************************************)
(* The accounts of the modelled runs.  A mailbox of a server is             *)
(* [attrs, name, msgs]: its LIST attributes, its name as the server prints   *)
(* it (quoted or not) and its messages in sequence-number order.            *)
(***************************************************************************)
Work == <<"W", "o", "r", "k">>
Lists == <<"L", "i", "s", "t", "s">>
Old == <<"O", "l", "d">>
HasNoChildren == <<"H", "a", "s", "N", "o", "C", "h", "i", "l", "d", "r", "e", "n">>
Noselect == <<"N", "o", "s", "e", "l", "e", "c", "t">>
AttrAll == <<"A", "l", "l">>
AttrFlagged == <<"F", "l", "a", "g", "g", "e", "d">>
HostPlain == <<"m", "x", ".", "e", "x", "a", "m", "p", "l", "e">>
HostGmail == <<"i", "m", "a", "p", ".">> \o GmailCom
HasChildren == <<"H", "a", "s", "C", "h", "i", "l", "d", "r", "e", "n">>
SentMail == <<"S", "e", "n", "t", " ", "M", "a", "i", "l">>
Year == <<"2", "0", "2", "3">>

Box(attrs, name, msgs) == [attrs |-> attrs, name |-> name, msgs |-> msgs]
SrcMsg(t, flags) == [tpl |-> t, flags |-> flags]
\* a destination message: idate.set is FALSE when the server stamped it itself
DstMsg(t, idate, flags) == [tpl |-> t, idate |-> idate, flags |-> flags]
ServerNow == [set |-> FALSE, instant |-> 0]
StampedAt(i) == [set |-> TRUE, instant |-> i]

\* World 1: a source whose folders carry the INBOX. prefix, separator "." on both
\* sides, names printed as atoms; the destination holds an empty INBOX.
\* World 2: separator "/" on both sides, names printed quoted; the source has an
\* empty folder, a \Noselect folder and a folder marked \Archive; the destination
\* INBOX already holds the first source message.
\* World 5: the destination has the folder Work as a \Noselect folder, one that
\* holds folders and no messages: it answers NO to SELECT Work and to CREATE Work.
\* World 3: a source with an empty INBOX and one folder of one message.
\* World 4: a source whose folders carry the INBOX. prefix, names printed as atoms,
\* and a Gmail destination: separator "/", names printed quoted, the special-use
\* folder [Gmail]/Sent Mail marked \Sent under the \Noselect folder [Gmail].
\* World 6: a Gmail source, separator "/", names printed quoted, whose folder
\* [Gmail]/Sent Mail is marked \Sent; the destination has a folder Sent marked \Sent.
\* World 7: a source with the folder INBOX.Archive; the destination holds an INBOX
\* and nothing that carries the label Archive.
Worlds ==
    << [srcSep |-> ".", dstSep |-> ".", dstHost |-> HostPlain, dstQuotes |-> FALSE,
        src |-> << Box(<<HasNoChildren>>, INBOX,
                       << SrcMsg(1, {FlagSeen, FlagRecent}),
                          SrcMsg(2, {FlagSeen, FlagForwarded}) >>),
                   Box(<<HasNoChildren>>, PrefixInbox \o Work,
                       << SrcMsg(3, {FlagDeleted}) >>) >>,
        dst |-> << Box(<<HasNoChildren>>, INBOX, <<>>) >>],
       [srcSep |-> "/", dstSep |-> "/", dstHost |-> HostPlain, dstQuotes |-> TRUE,
        src |-> << Box(<<HasNoChildren>>, Quoted(INBOX),
                       << SrcMsg(1, {}), SrcMsg(4, {FlagSeen}) >>),
                   Box(<<HasNoChildren>>, Quoted(Work), <<>>),
                   Box(<<Noselect>>, Quoted(Lists), <<>>),
                   Box(<<HasNoChildren, LabelArchive>>, Quoted(Old),
                       << SrcMsg(2, {}) >>) >>,
        dst |-> << Box(<<HasNoChildren>>, Quoted(INBOX),
                       << DstMsg(1, StampedAt(34), {}) >>) >>],
       [srcSep |-> ".", dstSep |-> ".", dstHost |-> HostPlain, dstQuotes |-> FALSE,
        src |-> << Box(<<HasNoChildren>>, INBOX, <<>>),
                   Box(<<HasNoChildren>>, Work, << SrcMsg(1, {FlagSeen}) >>) >>,
        dst |-> << Box(<<HasNoChildren>>, INBOX, <<>>) >>],
       [srcSep |-> ".", dstSep |-> "/", dstHost |-> HostGmail, dstQuotes |-> TRUE,
        src |-> << Box(<<HasNoChildren>>, INBOX, << SrcMsg(1, {FlagSeen}) >>),
                   Box(<<HasNoChildren>>, PrefixInbox \o LabelSent, << SrcMsg(2, {}) >>),
                   Box(<<HasNoChildren>>, PrefixInbox \o Work \o <<".">> \o Year,
                       << SrcMsg(4, {}), SrcMsg(5, {}) >>) >>,
        dst |-> << Box(<<HasNoChildren>>, Quoted(INBOX), <<>>),
                   Box(<<HasChildren, Noselect>>, Quoted(GmailTag), <<>>),
                   Box(<<HasNoChildren, LabelSent>>,
                       Quoted(GmailTag \o <<"/">> \o SentMail), <<>>) >>],
       [srcSep |-> "/", dstSep |-> "/", dstHost |-> HostPlain, dstQuotes |-> FALSE,
        src |-> << Box(<<HasNoChildren>>, INBOX, << SrcMsg(1, {FlagSeen}) >>),
                   Box(<<HasNoChildren>>, Work, << SrcMsg(2, {}) >>) >>,
        dst |-> << Box(<<HasNoChildren>>, INBOX, <<>>),
                   Box(<<HasChildren, Noselect>>, Work, <<>>) >>],
       [srcSep |-> "/", dstSep |-> "/", dstHost |-> HostPlain, dstQuotes |-> TRUE,
        src |-> << Box(<<HasNoChildren>>, Quoted(INBOX), << SrcMsg(1, {FlagSeen}) >>),
                   Box(<<HasNoChildren, LabelSent>>,
                       Quoted(GmailTag \o <<"/">> \o SentMail), << SrcMsg(2, {}) >>) >>,
        dst |-> << Box(<<HasNoChildren>>, Quoted(INBOX), <<>>),
                   Box(<<HasNoChildren, LabelSent>>, Quoted(LabelSent), <<>>) >>],
       [srcSep |-> ".", dstSep |-> ".", dstHost |-> HostPlain, dstQuotes |-> FALSE,
        src |-> << Box(<<HasNoChildren>>, INBOX, << SrcMsg(1, {FlagSeen}) >>),
                   Box(<<HasNoChildren>>, PrefixInbox \o LabelArchive,
                       << SrcMsg(2, {}) >>) >>,
        dst |-> << Box(<<HasNoChildren>>, INBOX, <<>>) >>] >>

\* the worlds of the main specification and the world of the retry specification
MainWorlds == {1, 2}
RetryWorld == 3
\* the world of the specification of the Gmail destination
GmailWorld == 4
\* the worlds of the special-use labels: in a source attribute, in a source name
SpecialUseWorld == 6
ArchiveWorld == 7
\* the world of the specification of the folder that cannot be created
CreateWorld == 5

\* ---- bounds of the model ----
\* account pairs in credentials.json (every pair names the same two accounts, so
\* that a later pair is a second run over the first one's result)
NPairs == 2
\* answers other than the regular one (NO, BAD, ABORT, failed login) per behaviour
MaxFaults == 1
MaxRetryFaults == 2
\* messages somebody else delivers to the destination during a behaviour
MaxDeliveries == 1
\* largest value of --attempts tried
MaxAttempts == 1
\* the largest self._attempts of the retry specification
MaxRetryAttempts == 2

\* the server's reading of a mailbox name argument: quotes removed
Unquote(name) == StripChars(name, {DQ})

\* index of the mailbox a name denotes on a server, 0 when there is none
BoxIndex(boxes, name) ==
    LET I == {i \in 1..Len(boxes) : Unquote(boxes[i].name) = Unquote(name)}
    IN  IF I = {} THEN 0 ELSE Min(I)

HasAttr(box, attr) == \E i \in 1..Len(box.attrs) : box.attrs[i] = attr

\* the untagged lines of a LIST "" * response
ListResponse(boxes, sep) ==
    [i \in 1..Len(boxes) |-> ListLine(boxes[i].attrs, sep, boxes[i].name)]

\* ---- the reconnect timeout: module constants, the property and --timeout ----
TIMEOUT_RECONN == 30
TIMEOUT_MAX == 300

\* a value the caller assigns to the timeout property: an int, or something else
\* (a str) that isinstance(value, int) turns away
IntValue(n) == [isint |-> TRUE, v |-> n]
StrValue(n) == [isint |-> FALSE, v |-> n]

\* the timeout setter without its cap
TimeoutSetterUncapped(value, old) == IF value.isint THEN value.v ELSE old

\* timeout.setter: the new self._timeout, given the old one
TimeoutSetter(value, old) ==
    IF value.isint
    THEN IF value.v > TIMEOUT_MAX THEN TIMEOUT_MAX ELSE value.v
    ELSE old

Digits == <<"0", "1", "2", "3", "4", "5", "6", "7", "8", "9">>

\* str.isdigit()
IsDigit(str) ==
    /\ str # <<>>
    /\ \A i \in 1..Len(str) : \E d \in 1..Len(Digits) : str[i] = Digits[d]

\* int(str) of a string of digits
RECURSIVE IntOf(_)
IntOf(str) ==
    IF str = <<>> THEN 0
    ELSE LET last == str[Len(str)]
             d == CHOOSE d \in 1..Len(Digits) : Digits[d] = last
         IN  10 * IntOf(SubSeq(str, 1, Len(str) - 1)) + (d - 1)

\* start lines 938-944: self._timeout after the --timeout argument was handled;
\* <<>> is an argument that was not given
StartTimeout(arg, old) ==
    IF arg # <<>> /\ IsDigit(arg)
    THEN IF IntOf(arg) > TIMEOUT_MAX THEN TIMEOUT_MAX ELSE IntOf(arg)
    ELSE old

\* _reconnect lines 403-407: the seconds slept by "for i in range(self._timeout)"
Sleep(t) == IF t > 0 THEN t ELSE 0

\* the values a caller assigns and the --timeout arguments of the timeout runs
AssignValues ==
    {IntValue(0 - 1), IntValue(0), IntValue(TIMEOUT_MAX), IntValue(TIMEOUT_MAX + 1),
     IntValue(2 * TIMEOUT_MAX), StrValue(TIMEOUT_MAX + 1)}
TimeoutArgs ==
    {<<>>, <<"0">>, <<"3", "0", "0">>, <<"3", "0", "1">>, <<"3", "x">>}
\* the other runs assign the default
DefaultValues == {IntValue(TIMEOUT_RECONN)}

\* assignments to the timeout property before start is called
MaxAssignments == 2

\* the sequences of at most n elements of S
UpTo(S, n) == UNION {[1..k -> S] : k \in 0..n}

VARIABLES
    pc,             \* where the engine stands
    pair,           \* index of the pair of credentials being migrated (start)
    attempts,       \* self._attempts
    timeout,        \* self._timeout
    args,           \* the --timeout argument and the values the caller still assigns
    mail,           \* self._mail: per session imap state, all_mailboxes, separator, prefix
    loc,            \* the locals of _migrate and of the functions it calls
    rc,             \* _reconnect: the operation to retry and the attempt number
    tryState,       \* inside a try block: "begin", "unselected" (select gave NO), "raised"
    world,          \* which accounts the run works on
    srcBoxes,       \* the source server's mailboxes
    dstBoxes,       \* the destination server's mailboxes
    selected,       \* per session, the mailbox the server has selected (0: none)
    faultsLeft,     \* irregular answers the servers may still give
    deliveriesLeft, \* foreign deliveries the destination may still receive
    cmd,            \* the IMAP command issued by the last step, with its answer
    hist            \* history of the current message and pair, for the properties

vars == <<pc, pair, attempts, timeout, args, mail, loc, rc, tryState, world, srcBoxes, dstBoxes,
          selected, faultsLeft, deliveriesLeft, cmd, hist>>

NoSession == [imap |-> "NONE", all_mailboxes |-> <<>>, separator |-> "", prefix |-> <<>>]
NoMail == [src |-> NoSession, dst |-> NoSession]
NoReceived == [kind |-> "none", at |-> [wall |-> 0, tz |-> 0]]
NoLoc == [box |-> 0, src_mailbox |-> <<>>, dst_mailbox |-> <<>>, all_messages |-> 0,
          message |-> 0, header |-> 0, received |-> NoReceived, flags |-> {},
          data |-> 0, break_all_loop |-> FALSE]
NoCmd == [s |-> "none", c |-> "NONE", arg |-> "", tgt |-> 0, res |-> ""]
Cmd(s, c, arg, tgt, res) == [s |-> s, c |-> c, arg |-> arg, tgt |-> tgt, res |-> res]
NoHist == [probe |-> "none", quota |-> FALSE, opened |-> FALSE, opReconn |-> 0,
           flagLog |-> FALSE, appended |-> [box |-> 0, pos |-> 0], migrated |-> {},
           drops |-> 0, wait |-> 0, leaked |-> 0, broken |-> "none",
           removed |-> {}]

InitWith(w, f, A, V, T) ==
    /\ pc = "configure"
    /\ pair = 1
    /\ attempts \in A
    /\ timeout = TIMEOUT_RECONN
    /\ args \in [timeout : T, values : UpTo(V, MaxAssignments)]
    /\ mail = NoMail
    /\ loc = NoLoc
    /\ rc = [retpc |-> "", attempt |-> 0]
    /\ tryState = "begin"
    /\ world \in w
    /\ srcBoxes = Worlds[world].src
    /\ dstBoxes = Worlds[world].dst
    /\ selected = [src |-> 0, dst |-> 0]
    /\ faultsLeft = f
    /\ deliveriesLeft = MaxDeliveries
    /\ cmd = NoCmd
    /\ hist = NoHist

\* the values of --attempts of the runs: no retry, and the largest one
AttemptsTried == {0, MaxAttempts}

Init == InitWith(MainWorlds, MaxFaults, AttemptsTried, DefaultValues, {<<>>})

InitRetry ==
    InitWith({RetryWorld}, MaxRetryFaults, 0..MaxRetryAttempts, DefaultValues, {<<>>})

InitNames ==
    InitWith({GmailWorld, SpecialUseWorld, ArchiveWorld}, MaxFaults, AttemptsTried, DefaultValues, {<<>>})

InitCreate == InitWith({CreateWorld}, MaxFaults, AttemptsTried, DefaultValues, {<<>>})

InitTimeout ==
    InitWith({RetryWorld}, MaxFaults, AttemptsTried, AssignValues, TimeoutArgs)

(***************************************************************************)
(* imaplib and the servers.                                                 *)
(***************************************************************************)
\* the caller assigns to the timeout property before calling start
SetTimeout ==
    /\ pc = "configure"
    /\ args.values # <<>>
    /\ timeout' = TimeoutSetter(Head(args.values), timeout)
    /\ args' = [args EXCEPT !.values = Tail(@)]
    /\ cmd' = NoCmd
    /\ UNCHANGED <<pc, pair, attempts, mail, loc, rc, tryState, world, srcBoxes, dstBoxes,
                   selected, faultsLeft, deliveriesLeft, hist>>

\* start lines 933-944: the command-line arguments, before the loop over the pairs
Start ==
    /\ pc = "configure"
    /\ args.values = <<>>
    /\ timeout' = StartTimeout(args.timeout, timeout)
    /\ pc' = "connect_src"
    /\ cmd' = NoCmd
    /\ UNCHANGED <<pair, attempts, args, mail, loc, rc, tryState, world, srcBoxes,
                   dstBoxes, selected, faultsLeft, deliveriesLeft, hist>>

St(k) == mail[k].imap

Boxes(k) == IF k = "src" THEN srcBoxes ELSE dstBoxes

\* the answers a command may get: the regular one, or an irregular one while the
\* fault budget lasts
Answers(regular, irregular) ==
    {regular} \cup (IF faultsLeft > 0 THEN irregular ELSE {})

Spend(r, regular) == faultsLeft' = IF r = regular THEN faultsLeft ELSE faultsLeft - 1

\* SELECT of a name: OK when the mailbox exists and may be selected
SelectRegular(boxes, name) ==
    IF BoxIndex(boxes, name) # 0 /\ ~HasAttr(boxes[BoxIndex(boxes, name)], Noselect)
    THEN "OK" ELSE "NO"

\* imaplib refuses SEARCH, FETCH and STORE outside the SELECTED state, and a select
\* that raised IMAP4.error leaves the try block at once: no command is sent
NoCommand(k) == tryState = "raised" \/ St(k) # "SELECTED"

\* the command of a try block may run: its "if state != 'SELECTED': select" is over
Ready(k) == St(k) = "SELECTED" \/ tryState # "begin"

\* the steps whose command is a FETCH on the source
FetchStepsOfMessage == {"fetch_header", "fetch_message", "fetch_flags"}

\* a handler that leaves the loop after _reconnect instead of running the try block
\* again: the message whose FETCH was cut is given up
AbortSkipping(retpc) ==
    /\ pc' = "reconnect"
    /\ rc' = [retpc |-> IF retpc \in FetchStepsOfMessage THEN "next_message" ELSE retpc,
              attempt |-> 1]
    /\ tryState' = "begin"

\* a handler that, after _reconnect, starts the loop over the messages of the
\* mailbox again
AbortRestartingFolder(retpc) ==
    /\ pc' = "reconnect"
    /\ rc' = [retpc |-> IF retpc \in FetchStepsOfMessage THEN "set_dst" ELSE retpc,
              attempt |-> 1]
    /\ tryState' = "begin"

\* except (imaplib.IMAP4.abort, TimeoutError): self._reconnect(), then the loop
\* runs the try block again
Abort(retpc) ==
    /\ pc' = "reconnect"
    /\ rc' = [retpc |-> retpc, attempt |-> 1]
    /\ tryState' = "begin"

\* the operation at hand is over: the next one starts a new try block
Done(next) ==
    /\ pc' = next
    /\ rc' = rc
    /\ tryState' = "begin"

OpDone(h) == [h EXCEPT !.opReconn = 0, !.wait = 0]

\* history: the connection dropped during a FETCH on the source
Dropped(h) == [h EXCEPT !.drops = @ + 1]

\* CLOSE: the messages flagged \Deleted leave the selected mailbox
Expunge(boxes, i) ==
    IF i = 0 THEN boxes
    ELSE [boxes EXCEPT ![i].msgs =
            SelectSeq(boxes[i].msgs, LAMBDA m : FlagDeleted \notin m.flags)]

(***************************************************************************)
(* The engine: start, _migrate and the functions it calls.                  *)
(***************************************************************************)
\* _auth_server, the ways it fails: "NO" is what it returns after gaierror,
\* ConnectionRefusedError or a rejected login (IMAP4.error); "SSL_ERROR" is an
\* exception of _imap_conn that neither except clause names (ssl.SSLError of the
\* TLS handshake, a socket timeout): it leaves _auth_server and every caller
AuthFailures == {"NO", "SSL_ERROR"}

\* cred.get('security', '').upper() == 'OAUTH2': the destination accounts of the
\* retry world and of the Gmail world authenticate with a token, every other
\* account with a password
OAuth2(k) == k = "dst" /\ world \in {RetryWorld, GmailWorld}

\* history of the token file of session k's credential over one _auth_server:
\* generate_token writes it, and os.remove deletes it when the server answers NO to
\* AUTHENTICATE; h.removed is the set of sessions whose token file is deleted
TokenFile(h, k, r) ==
    IF ~OAuth2(k) THEN h
    ELSE [h EXCEPT !.removed = CASE r = "OK" -> @ \ {k}
                                 [] r = "NO" -> @ \cup {k}
                                 [] OTHER -> @]

\* _migrate line 794 and _connect, first session
ConnectSrc ==
    /\ pc = "connect_src"
    /\ \E r \in Answers("OK", AuthFailures) :
        /\ Spend(r, "OK")
        /\ cmd' = Cmd("src", "LOGIN", "", 0, r)
        /\ hist' = TokenFile([NoHist EXCEPT !.migrated = hist.migrated,
                                            !.drops = hist.drops,
                                            !.removed = hist.removed], "src", r)
        /\ CASE r = "OK" ->
                /\ mail' = [NoMail EXCEPT !.src.imap = "AUTH"]
                /\ pc' = "connect_dst"
             [] r = "NO" ->
                /\ mail' = NoMail
                /\ pc' = "disconnect_src"
             [] r = "SSL_ERROR" ->
                /\ mail' = NoMail
                /\ pc' = "crashed"
    /\ loc' = NoLoc
    /\ selected' = [src |-> 0, dst |-> 0]
    /\ UNCHANGED <<pair, attempts, timeout, args, rc, tryState, world, srcBoxes, dstBoxes, deliveriesLeft>>

\* _connect, second session; on failure _disconnect logs the first one out
ConnectDst ==
    /\ pc = "connect_dst"
    /\ \E r \in Answers("OK", AuthFailures) :
        /\ Spend(r, "OK")
        /\ cmd' = Cmd("dst", "LOGIN", "", 0, r)
        /\ CASE r = "OK" ->
                /\ mail' = [mail EXCEPT !.dst.imap = "AUTH"]
                /\ hist' = [TokenFile(hist, "dst", r) EXCEPT !.opened = TRUE]
                /\ pc' = "list_src"
             [] r = "NO" ->
                /\ mail' = mail
                /\ hist' = TokenFile(hist, "dst", r)
                /\ pc' = "disconnect_src"
             [] r = "SSL_ERROR" ->
                /\ mail' = mail
                /\ hist' = hist
                /\ pc' = "crashed"
    /\ UNCHANGED <<pair, attempts, timeout, args, loc, rc, tryState, world, srcBoxes, dstBoxes,
                   selected, deliveriesLeft>>

\* _get_mailboxes_info, one session: LIST, separator and prefix
GetMailboxesInfo(k) ==
    /\ pc = "list_" \o k
    /\ \E r \in Answers("OK", {"NO", "BAD", "ABORT"}) :
        /\ Spend(r, "OK")
        /\ cmd' = Cmd(k, "LIST", "", 0, r)
        /\ CASE r = "OK" ->
                \E lines \in {ListResponse(Boxes(k), IF k = "src" THEN Worlds[world].srcSep
                                                      ELSE Worlds[world].dstSep)} :
                \E separator \in {IF Len(lines) = 0 THEN "" ELSE SeparatorOf(lines[1])} :
                    IF separator = ""
                    THEN /\ mail' = mail
                         /\ Done("crashed")
                    ELSE /\ \E prefix \in {PrefixOf(lines, separator)} :
                                mail' = [mail EXCEPT ![k].all_mailboxes = lines,
                                                    ![k].separator = separator,
                                                    ![k].prefix = prefix]
                         /\ Done(IF k = "src" THEN "list_dst" ELSE "next_mailbox")
             [] r \in {"NO", "BAD"} -> mail' = mail /\ Done("end_pair")
             [] r = "ABORT" -> mail' = mail /\ Abort(pc)
        /\ hist' = IF r = "ABORT" THEN hist ELSE OpDone(hist)
    /\ UNCHANGED <<pair, attempts, timeout, args, loc, world, srcBoxes, dstBoxes, selected, deliveriesLeft>>

\* _migrate lines 803-811 and 851-855: the loop over the source mailboxes
MigrateNextMailbox ==
    /\ pc = "next_mailbox"
    /\ LET all == mail.src.all_mailboxes
           i == loc.box + 1
       IN  IF loc.break_all_loop \/ loc.box = Len(all)
           THEN loc' = loc /\ pc' = "disconnect_src"
           ELSE IF MailboxNotCopied(all[i])
           THEN loc' = [loc EXCEPT !.box = i, !.message = 0] /\ pc' = "next_mailbox"
           ELSE /\ loc' = [loc EXCEPT !.box = i, !.message = 0,
                                      !.src_mailbox = BareName(all[i], mail.src.separator)]
                /\ pc' = "set_src"
    /\ cmd' = NoCmd
    /\ hist' = [hist EXCEPT !.probe = "none", !.flagLog = FALSE,
                            !.appended = [box |-> 0, pos |-> 0]]
    /\ UNCHANGED <<pair, attempts, timeout, args, mail, rc, tryState, world, srcBoxes, dstBoxes,
                   selected, faultsLeft, deliveriesLeft>>

\* _set_src_mailbox
SetSrcMailbox ==
    /\ pc = "set_src"
    /\ \E r \in Answers(SelectRegular(srcBoxes, loc.src_mailbox), {"NO", "BAD", "ABORT"}) :
        /\ Spend(r, SelectRegular(srcBoxes, loc.src_mailbox))
        /\ cmd' = Cmd("src", "SELECT", "", 0, r)
        /\ CASE r = "OK" ->
                /\ mail' = [mail EXCEPT !.src.imap = "SELECTED"]
                /\ selected' = [selected EXCEPT !.src = BoxIndex(srcBoxes, loc.src_mailbox)]
                /\ Done("get_all")
             [] r = "NO" ->
                /\ mail' = [mail EXCEPT !.src.imap = "AUTH"]
                /\ selected' = [selected EXCEPT !.src = 0]
                /\ Done("next_mailbox")
             [] r = "BAD" -> mail' = mail /\ selected' = selected /\ Done("next_mailbox")
             [] r = "ABORT" -> mail' = mail /\ selected' = selected /\ Abort(pc)
        /\ hist' = IF r = "ABORT" THEN hist ELSE OpDone(hist)
    /\ UNCHANGED <<pair, attempts, timeout, args, loc, world, srcBoxes, dstBoxes, deliveriesLeft>>

\* "if imap.state != 'SELECTED': imap.select(mailbox)" at the head of the try blocks
\* of _get_allmessages, _fetch_header, _message_exists, _fetch_message,
\* _append_message, _fetch_flags and _store_flags; its answer is not looked at
ReselectSession ==
    CASE pc \in {"get_all", "fetch_header", "fetch_message", "fetch_flags"} -> "src"
      [] pc \in {"message_exists", "append", "store_search"} -> "dst"
      [] OTHER -> "none"

Reselect ==
    /\ ReselectSession # "none"
    /\ tryState = "begin"
    /\ St(ReselectSession) # "SELECTED"
    /\ LET k == ReselectSession
           name == IF k = "src" THEN loc.src_mailbox ELSE loc.dst_mailbox
           regular == SelectRegular(Boxes(k), name)
       IN  \E r \in Answers(regular, {"NO", "BAD", "ABORT"}) :
            /\ Spend(r, regular)
            /\ cmd' = Cmd(k, "SELECT", "", 0, r)
            /\ CASE r = "OK" ->
                    /\ mail' = [mail EXCEPT ![k].imap = "SELECTED"]
                    /\ selected' = [selected EXCEPT ![k] = BoxIndex(Boxes(k), name)]
                    /\ UNCHANGED <<pc, rc, tryState>>
                 [] r = "NO" ->
                    /\ mail' = [mail EXCEPT ![k].imap = "AUTH"]
                    /\ selected' = [selected EXCEPT ![k] = 0]
                    /\ tryState' = "unselected"
                    /\ UNCHANGED <<pc, rc>>
                 [] r = "BAD" ->
                    /\ tryState' = "raised"
                    /\ UNCHANGED <<pc, rc, mail, selected>>
                 [] r = "ABORT" ->
                    /\ Abort(pc)
                    /\ UNCHANGED <<mail, selected>>
    /\ UNCHANGED <<pair, attempts, timeout, args, loc, world, srcBoxes, dstBoxes, deliveriesLeft, hist>>

\* _get_allmessages: SEARCH ALL on the source; the list of sequence numbers 1..n is
\* kept as n
GetAllMessages ==
    /\ pc = "get_all"
    /\ Ready("src")
    /\ IF NoCommand("src")
       THEN /\ cmd' = NoCmd
            /\ loc' = loc
            /\ Done("next_mailbox")
            /\ hist' = OpDone(hist)
            /\ faultsLeft' = faultsLeft
       ELSE \E r \in Answers("OK", {"NO", "BAD", "ABORT"}) :
            /\ Spend(r, "OK")
            /\ cmd' = Cmd("src", "SEARCH", "ALL", 0, r)
            /\ CASE r = "OK" ->
                    LET n == Len(srcBoxes[selected.src].msgs)
                    IN  IF n = 0
                        THEN loc' = loc /\ Done("next_mailbox")
                        ELSE loc' = [loc EXCEPT !.all_messages = n] /\ Done("find_foldername")
                 [] r \in {"NO", "BAD"} -> loc' = loc /\ Done("next_mailbox")
                 [] r = "ABORT" -> loc' = loc /\ Abort(pc)
            /\ hist' = IF r = "ABORT" THEN hist ELSE OpDone(hist)
    /\ UNCHANGED <<pair, attempts, timeout, args, mail, world, srcBoxes, dstBoxes, selected, deliveriesLeft>>

\* _migrate line 817: dst_mailbox = self._find_foldername(src_mailbox)
MigrateFindFoldername ==
    /\ pc = "find_foldername"
    /\ IF FindFoldernameRaises(loc.src_mailbox, mail.dst.all_mailboxes)
       THEN loc' = loc /\ pc' = "crashed"
       ELSE /\ loc' = [loc EXCEPT !.dst_mailbox =
                        FindFoldername(loc.src_mailbox, mail.src.prefix, mail.src.separator,
                                       mail.dst.prefix, mail.dst.separator,
                                       mail.dst.all_mailboxes, Worlds[world].dstHost)]
            /\ pc' = "set_dst"
    /\ cmd' = NoCmd
    /\ UNCHANGED <<pair, attempts, timeout, args, mail, rc, tryState, world, srcBoxes, dstBoxes,
                   selected, faultsLeft, deliveriesLeft, hist>>

\* _set_dst_mailbox, first half of the loop body: SELECT
SetDstMailbox ==
    /\ pc = "set_dst"
    /\ \E r \in Answers(SelectRegular(dstBoxes, loc.dst_mailbox), {"NO", "BAD", "ABORT"}) :
        /\ Spend(r, SelectRegular(dstBoxes, loc.dst_mailbox))
        /\ cmd' = Cmd("dst", "SELECT", "", 0, r)
        /\ CASE r = "OK" ->
                /\ mail' = [mail EXCEPT !.dst.imap = "SELECTED"]
                /\ selected' = [selected EXCEPT !.dst = BoxIndex(dstBoxes, loc.dst_mailbox)]
                /\ loc' = [loc EXCEPT !.message = 0]
                /\ Done("next_message")
             [] r = "NO" ->
                /\ mail' = [mail EXCEPT !.dst.imap = "AUTH"]
                /\ selected' = [selected EXCEPT !.dst = 0]
                /\ loc' = loc
                /\ Done("create_dst")
             [] r = "BAD" ->
                mail' = mail /\ selected' = selected /\ loc' = loc /\ Done("next_mailbox")
             [] r = "ABORT" ->
                mail' = mail /\ selected' = selected /\ loc' = loc /\ Abort(pc)
        /\ hist' = IF r \in {"ABORT", "NO"} THEN hist ELSE OpDone(hist)
    /\ UNCHANGED <<pair, attempts, timeout, args, world, srcBoxes, dstBoxes, deliveriesLeft>>

\* the name under which the destination lists a mailbox it created
CreatedName(name) ==
    IF Worlds[world].dstQuotes THEN Quoted(Unquote(name)) ELSE Unquote(name)

\* _set_dst_mailbox, second half of the loop body: CREATE, then the loop selects
\* again; the answer of CREATE is not looked at
SetDstMailboxCreate ==
    /\ pc = "create_dst"
    /\ LET regular == IF BoxIndex(dstBoxes, loc.dst_mailbox) = 0 THEN "OK" ELSE "NO"
       IN  \E r \in Answers(regular, {"NO", "BAD", "ABORT"}) :
            /\ Spend(r, regular)
            /\ cmd' = Cmd("dst", "CREATE", "", 0, r)
            /\ CASE r = "OK" ->
                    /\ dstBoxes' = Append(dstBoxes,
                                          Box(<<HasNoChildren>>, CreatedName(loc.dst_mailbox), <<>>))
                    /\ Done("set_dst")
                 [] r = "NO" -> dstBoxes' = dstBoxes /\ Done("set_dst")
                 [] r = "BAD" -> dstBoxes' = dstBoxes /\ Done("next_mailbox")
                 [] r = "ABORT" -> dstBoxes' = dstBoxes /\ Abort("set_dst")
            /\ hist' = IF r = "BAD" THEN OpDone(hist) ELSE hist
    /\ UNCHANGED <<pair, attempts, timeout, args, mail, loc, world, srcBoxes, selected, deliveriesLeft>>

\* _migrate lines 824-826: the loop over the messages of the source mailbox
MigrateNextMessage ==
    /\ pc = "next_message"
    /\ IF loc.break_all_loop \/ loc.message = loc.all_messages
       THEN loc' = loc /\ pc' = "next_mailbox"
       ELSE /\ loc' = [loc EXCEPT !.message = loc.message + 1, !.header = 0,
                                  !.received = NoReceived, !.flags = {}, !.data = 0]
            /\ pc' = "fetch_header"
    /\ cmd' = NoCmd
    /\ hist' = [hist EXCEPT !.probe = "none", !.flagLog = FALSE,
                            !.appended = [box |-> 0, pos |-> 0]]
    /\ UNCHANGED <<pair, attempts, timeout, args, mail, rc, tryState, world, srcBoxes, dstBoxes,
                   selected, faultsLeft, deliveriesLeft>>

\* the source message a sequence number denotes
SrcMessage == srcBoxes[selected.src].msgs[loc.message]

\* _fetch_header: FETCH n (BODY.PEEK[HEADER]); the header is kept as the content it
\* belongs to
FetchHeader ==
    /\ pc = "fetch_header"
    /\ Ready("src")
    /\ IF NoCommand("src")
       THEN /\ cmd' = NoCmd
            /\ loc' = loc
            /\ Done("next_message")
            /\ hist' = OpDone(hist)
            /\ faultsLeft' = faultsLeft
       ELSE \E r \in Answers("OK", {"NO", "BAD", "ABORT"}) :
            /\ Spend(r, "OK")
            /\ cmd' = Cmd("src", "FETCH", "BODY.PEEK[HEADER]", loc.message, r)
            /\ CASE r = "OK" ->
                    loc' = [loc EXCEPT !.header = SrcMessage.tpl] /\ Done("message_exists")
                 [] r \in {"NO", "BAD"} -> loc' = loc /\ Done("next_message")
                 [] r = "ABORT" -> loc' = loc /\ Abort(pc)
            /\ hist' = IF r = "ABORT" THEN Dropped(hist) ELSE OpDone(hist)
    /\ UNCHANGED <<pair, attempts, timeout, args, mail, world, srcBoxes, dstBoxes, selected, deliveriesLeft>>

\* the destination's answer to SEARCH HEADER Message-ID "<id>": the header field
\* contains the string
MatchesMessageId(m, msg_id) == Contains(MsgPool[m.tpl].mid, msg_id)

\* the destination's answer to SEARCH FROM "<f>" TO "<t>" SENTON "<d>"
MatchesFromToSentOn(m, h) ==
    /\ MsgPool[m.tpl].from = h.from
    /\ MsgPool[m.tpl].to = h.to
    /\ MsgPool[m.tpl].date.kind = "ok"
    /\ SentOnDay(MsgPool[m.tpl].date) = SentOnDay(h.date)

\* whether the search of _message_exists finds a message in the selected mailbox
ProbeFinds(h) ==
    \E i \in 1..Len(dstBoxes[selected.dst].msgs) :
        IF MsgIdOf(h.mid) # <<>>
        THEN MatchesMessageId(dstBoxes[selected.dst].msgs[i], MsgIdOf(h.mid))
        ELSE MatchesFromToSentOn(dstBoxes[selected.dst].msgs[i], h)

\* lines 649-651 and 671-674: the value _message_exists returns
MessageExistsResult(status, found) == status = "OK" /\ found

\* _message_exists: the existence probe at the destination
MessageExists ==
    /\ pc = "message_exists"
    /\ LET h == MsgPool[loc.header]
           how == IF MsgIdOf(h.mid) # <<>> THEN "HEADER Message-ID" ELSE "FROM TO SENTON"
       IN  IF MsgIdOf(h.mid) = <<>> /\ h.date.kind # "ok"
           THEN \* parsedate_to_datetime(header['Date']) raises outside any try block
                /\ cmd' = NoCmd
                /\ pc' = "crashed"
                /\ UNCHANGED <<rc, tryState, hist, faultsLeft>>
           ELSE /\ Ready("dst")
                /\ IF NoCommand("dst")
                   THEN /\ cmd' = NoCmd
                        /\ Done(IF MessageExistsResult("NO", FALSE)
                                THEN "next_message" ELSE "fetch_message")
                        /\ hist' = [OpDone(hist) EXCEPT !.probe = "failed"]
                        /\ faultsLeft' = faultsLeft
                   ELSE \E r \in Answers("OK", {"NO", "BAD", "ABORT"}) :
                        /\ Spend(r, "OK")
                        /\ cmd' = Cmd("dst", "SEARCH", how, loc.header, r)
                        /\ CASE r = "OK" ->
                                /\ Done(IF MessageExistsResult("OK", ProbeFinds(h))
                                        THEN "next_message" ELSE "fetch_message")
                                /\ hist' = [OpDone(hist) EXCEPT !.probe =
                                              IF ProbeFinds(h) THEN "match" ELSE "empty"]
                             [] r \in {"NO", "BAD"} ->
                                /\ Done(IF MessageExistsResult("NO", FALSE)
                                        THEN "next_message" ELSE "fetch_message")
                                /\ hist' = [OpDone(hist) EXCEPT !.probe = "failed"]
                             [] r = "ABORT" -> Abort(pc) /\ hist' = hist
    /\ UNCHANGED <<pair, attempts, timeout, args, mail, loc, world, srcBoxes, dstBoxes, selected,
                   deliveriesLeft>>

\* _fetch_message: FETCH n (BODY.PEEK[]), then lines 835-840 compute the date
FetchMessage ==
    /\ pc = "fetch_message"
    /\ Ready("src")
    /\ IF NoCommand("src")
       THEN /\ cmd' = NoCmd
            /\ loc' = loc
            /\ Done("next_message")
            /\ hist' = OpDone(hist)
            /\ faultsLeft' = faultsLeft
       ELSE \E r \in Answers("OK", {"NO", "BAD", "ABORT"}) :
            /\ Spend(r, "OK")
            /\ cmd' = Cmd("src", "FETCH", "BODY.PEEK[]", loc.message, r)
            /\ CASE r = "OK" ->
                    /\ loc' = [loc EXCEPT !.received = Received(MsgPool[loc.header].date)]
                    /\ Done("append")
                 [] r \in {"NO", "BAD"} -> loc' = loc /\ Done("next_message")
                 [] r = "ABORT" -> loc' = loc /\ Abort(pc)
            /\ hist' = IF r = "ABORT" THEN Dropped(hist) ELSE OpDone(hist)
    /\ UNCHANGED <<pair, attempts, timeout, args, mail, world, srcBoxes, dstBoxes, selected, deliveriesLeft>>

\* _append_message without lines 726-727: an answer holding [OVERQUOTA] is reported
\* like any other refusal
AppendStatusNoQuota(r) == IF r = "OK" THEN "OK" ELSE "NO"

\* lines 725-727 of _append_message: the status returned for an answer; the answer
\* "OVERQUOTA" is a tagged NO whose text holds [OVERQUOTA]
AppendStatus(r) ==
    IF r = "OK" THEN "OK"
    ELSE IF r = "OVERQUOTA" THEN "OVERQUOTA"
    ELSE "NO"

\* the internal date the destination gives an appended message
InternalDate(received) ==
    IF received.kind = "date"
    THEN StampedAt(Instant(received.at.wall, received.at.tz))
    ELSE ServerNow

\* the destination mailboxes after APPEND stored the message in mailbox i
Stored(i) ==
    [dstBoxes EXCEPT ![i].msgs =
        Append(dstBoxes[i].msgs, DstMsg(loc.header, InternalDate(loc.received), {}))]

\* _append_message and lines 842-849 of _migrate.  APPEND names its mailbox and is
\* legal without a selected mailbox.  An answer BAD, or a select that raised, leaves
\* data bound to the exception, and line 726 iterates it: TypeError ends the run.
\* A connection that drops during APPEND may drop after the server stored the message.
AppendMessage ==
    /\ pc = "append"
    /\ Ready("dst")
    /\ IF tryState = "raised"
       THEN /\ cmd' = NoCmd
            /\ pc' = "crashed"
            /\ UNCHANGED <<rc, tryState, loc, hist, dstBoxes, faultsLeft>>
       ELSE LET i == BoxIndex(dstBoxes, loc.dst_mailbox)
                regular == IF i = 0 THEN "NO" ELSE "OK"
            IN  \E r \in Answers(regular, {"NO", "OVERQUOTA", "BAD", "ABORT", "ABORT_STORED"}
                                          \ (IF i = 0 THEN {"ABORT_STORED"} ELSE {})) :
                /\ Spend(r, regular)
                /\ cmd' = Cmd("dst", "APPEND", "", loc.header, r)
                /\ CASE r = "OK" ->
                        /\ dstBoxes' = Stored(i)
                        /\ loc' = loc
                        /\ hist' = [OpDone(hist) EXCEPT
                                      !.appended = [box |-> i, pos |-> Len(dstBoxes[i].msgs) + 1],
                                      !.migrated = @ \cup {[pair |-> pair, box |-> loc.src_mailbox,
                                                            tpl |-> loc.header]}]
                        /\ Done(IF AppendStatus(r) = "OK" THEN "fetch_flags" ELSE "next_message")
                     [] r \in {"NO", "OVERQUOTA"} ->
                        /\ dstBoxes' = dstBoxes
                        /\ loc' = [loc EXCEPT !.break_all_loop = (AppendStatus(r) = "OVERQUOTA")]
                        /\ hist' = [OpDone(hist) EXCEPT !.quota = (r = "OVERQUOTA")]
                        /\ Done(IF AppendStatus(r) = "OK" THEN "fetch_flags" ELSE "next_message")
                     [] r = "BAD" ->
                        /\ pc' = "crashed"
                        /\ UNCHANGED <<rc, tryState, loc, hist, dstBoxes>>
                     [] r = "ABORT" ->
                        /\ Abort(pc)
                        /\ UNCHANGED <<loc, hist, dstBoxes>>
                     [] r = "ABORT_STORED" ->
                        /\ Abort(pc)
                        /\ dstBoxes' = Stored(i)
                        /\ UNCHANGED <<loc, hist>>
    /\ UNCHANGED <<pair, attempts, timeout, args, mail, world, srcBoxes, selected, deliveriesLeft>>

\* _fetch_flags: FETCH n (FLAGS) on the source
FetchFlags ==
    /\ pc = "fetch_flags"
    /\ Ready("src")
    /\ IF NoCommand("src")
       THEN /\ cmd' = NoCmd
            /\ loc' = loc
            /\ Done("next_message")
            /\ hist' = [OpDone(hist) EXCEPT !.flagLog = TRUE]
            /\ faultsLeft' = faultsLeft
       ELSE \E r \in Answers("OK", {"NO", "BAD", "ABORT"}) :
            /\ Spend(r, "OK")
            /\ cmd' = Cmd("src", "FETCH", "FLAGS", loc.message, r)
            /\ CASE r = "OK" ->
                    /\ loc' = [loc EXCEPT !.flags = ParseFlags(SrcMessage.flags)]
                    /\ Done(IF ParseFlags(SrcMessage.flags) # {}
                            THEN "store_search" ELSE "next_message")
                    /\ hist' = OpDone(hist)
                 [] r \in {"NO", "BAD"} ->
                    /\ loc' = loc
                    /\ Done("next_message")
                    /\ hist' = [OpDone(hist) EXCEPT !.flagLog = TRUE]
                 [] r = "ABORT" -> loc' = loc /\ Abort(pc) /\ hist' = Dropped(hist)
    /\ UNCHANGED <<pair, attempts, timeout, args, mail, world, srcBoxes, dstBoxes, selected, deliveriesLeft>>

\* _store_flags, first command of the try block: SEARCH ALL on the destination;
\* data[0].split()[-1] is the highest sequence number
StoreFlagsSearch ==
    /\ pc = "store_search"
    /\ Ready("dst")
    /\ IF NoCommand("dst")
       THEN /\ cmd' = NoCmd
            /\ loc' = loc
            /\ Done("next_message")
            /\ hist' = [OpDone(hist) EXCEPT !.flagLog = TRUE]
            /\ faultsLeft' = faultsLeft
       ELSE \E r \in Answers("OK", {"NO", "BAD", "ABORT"}) :
            /\ Spend(r, "OK")
            /\ cmd' = Cmd("dst", "SEARCH", "ALL", 0, r)
            /\ CASE r = "OK" ->
                    LET n == Len(dstBoxes[selected.dst].msgs)
                    IN  IF n = 0
                        THEN /\ pc' = "crashed"
                             /\ UNCHANGED <<rc, tryState, loc, hist>>
                        ELSE /\ loc' = [loc EXCEPT !.data = n]
                             /\ pc' = "store"
                             /\ UNCHANGED <<rc, tryState, hist>>
                 [] r \in {"NO", "BAD"} ->
                    /\ loc' = loc
                    /\ Done("next_message")
                    /\ hist' = [OpDone(hist) EXCEPT !.flagLog = TRUE]
                 [] r = "ABORT" -> loc' = loc /\ Abort(pc) /\ hist' = hist
    /\ UNCHANGED <<pair, attempts, timeout, args, mail, world, srcBoxes, dstBoxes, selected, deliveriesLeft>>

\* line 782 of _store_flags: whether flags_add_dst_error is logged after STORE was
\* answered r; the value store() returns is dropped, status is still that of SEARCH
StoreLogged(r) == r = "BAD"

\* _store_flags, second command of the try block: STORE <last> +FLAGS (<flags>)
StoreFlagsStore ==
    /\ pc = "store"
    /\ \E r \in Answers("OK", {"NO", "BAD", "ABORT"}) :
        /\ Spend(r, "OK")
        /\ cmd' = Cmd("dst", "STORE", "+FLAGS", loc.data, r)
        /\ CASE r = "OK" ->
                /\ dstBoxes' = [dstBoxes EXCEPT ![selected.dst].msgs[loc.data].flags =
                                                    @ \cup loc.flags]
                /\ Done("next_message")
                /\ hist' = OpDone(hist)
             [] r \in {"NO", "BAD"} ->
                /\ dstBoxes' = dstBoxes
                /\ Done("next_message")
                /\ hist' = [OpDone(hist) EXCEPT !.flagLog = StoreLogged(r)]
             [] r = "ABORT" -> dstBoxes' = dstBoxes /\ Abort("store_search") /\ hist' = hist
    /\ UNCHANGED <<pair, attempts, timeout, args, mail, loc, world, srcBoxes, selected, deliveriesLeft>>

\* a _reconnect that would keep the imap objects it had
ReauthenticatedStale(m) == m

\* a _reconnect that would start both sessions over from empty records
ReauthenticatedFresh(m) ==
    [k \in {"src", "dst"} |-> [NoSession EXCEPT !.imap = "AUTH"]]

\* lines 411-416 of _reconnect: self._mail once both sessions re-authenticated;
\* only the imap object of each session is replaced
Reauthenticated(m) == [m EXCEPT !.src.imap = "AUTH", !.dst.imap = "AUTH"]

\* history: the session whose connection raised the abort and still has its imap
\* object; on the first turn of _reconnect it is the session of the command cut
Broken == IF rc.attempt = 1 THEN cmd.s ELSE hist.broken

\* history of lines 411-416: K is the set of sessions whose imap object this turn
\* replaces; a replaced object other than the broken one is a working connection
\* that no LOGOUT was sent on
Replaced(h, K) ==
    [h EXCEPT !.leaked = @ + Cardinality(K \ {Broken}),
              !.broken = IF Broken \in K THEN "none" ELSE Broken]

\* history of the token files over one turn of _reconnect: _auth_server for the
\* source and, when that succeeded, for the destination
Reauthentication(h, r) ==
    CASE r = "OK" -> TokenFile(TokenFile(h, "src", "OK"), "dst", "OK")
      [] r = "SRC_FAILED" -> TokenFile(h, "src", "NO")
      [] r = "DST_FAILED" -> TokenFile(TokenFile(h, "src", "OK"), "dst", "NO")
      [] r = "SRC_ERROR" -> h
      [] r = "DST_ERROR" -> TokenFile(h, "src", "OK")

\* what _auth_server makes of a turn of _reconnect other than two authenticated
\* sessions: it returns 'NO' for the source or for the destination, or _imap_conn
\* raises for one of them an error that _auth_server does not catch (AuthFailures)
ReauthFailures == {"SRC_FAILED", "DST_FAILED", "SRC_ERROR", "DST_ERROR"}

\* _reconnect, one turn of "for attempt in range(1, self._attempts + 1)": the wait,
\* then _auth_server for the source and, if that succeeded, for the destination
ReconnectAttempt ==
    /\ pc = "reconnect"
    /\ rc.attempt <= attempts
    /\ \E r \in Answers("OK", ReauthFailures) :
        /\ Spend(r, "OK")
        /\ cmd' = Cmd(IF r \in {"SRC_FAILED", "SRC_ERROR"} THEN "src" ELSE "dst", "LOGIN",
                      "reconnect", rc.attempt, r)
        /\ hist' = [Reauthentication(Replaced(hist, CASE r = "OK" -> {"src", "dst"}
                                                      [] r \in {"SRC_FAILED", "SRC_ERROR"} -> {}
                                                      [] OTHER -> {"src"}), r)
                        EXCEPT !.opReconn = @ + 1, !.wait = Sleep(timeout)]
        /\ CASE r = "OK" ->
                /\ mail' = Reauthenticated(mail)
                /\ selected' = [src |-> 0, dst |-> 0]
                /\ pc' = rc.retpc
                /\ rc' = rc
             [] r = "SRC_FAILED" ->
                /\ mail' = mail
                /\ selected' = selected
                /\ pc' = pc
                /\ rc' = [rc EXCEPT !.attempt = @ + 1]
             [] r = "DST_FAILED" ->
                /\ mail' = [mail EXCEPT !.src.imap = "AUTH"]
                /\ selected' = [selected EXCEPT !.src = 0]
                /\ pc' = pc
                /\ rc' = [rc EXCEPT !.attempt = @ + 1]
             [] r = "SRC_ERROR" ->
                /\ mail' = mail
                /\ selected' = selected
                /\ pc' = "crashed"
                /\ rc' = rc
             [] r = "DST_ERROR" ->
                /\ mail' = [mail EXCEPT !.src.imap = "AUTH"]
                /\ selected' = [selected EXCEPT !.src = 0]
                /\ pc' = "crashed"
                /\ rc' = rc
    /\ UNCHANGED <<pair, attempts, timeout, args, loc, tryState, world, srcBoxes, dstBoxes, deliveriesLeft>>

\* _reconnect line 420: sys.exit(1) once the loop is exhausted
ReconnectExit ==
    /\ pc = "reconnect"
    /\ rc.attempt > attempts
    /\ pc' = "exited"
    /\ cmd' = NoCmd
    /\ UNCHANGED <<pair, attempts, timeout, args, mail, loc, rc, tryState, world, srcBoxes, dstBoxes,
                   selected, faultsLeft, deliveriesLeft, hist>>

\* _disconnect, one session: CLOSE when SELECTED, then LOGOUT, when the session has
\* an imap object
Disconnect(k) ==
    /\ pc = "disconnect_" \o k
    /\ CASE St(k) = "SELECTED" ->
            /\ cmd' = Cmd(k, "CLOSE", "", 0, "OK")
            /\ mail' = [mail EXCEPT ![k].imap = "AUTH"]
            /\ selected' = [selected EXCEPT ![k] = 0]
            /\ srcBoxes' = IF k = "src" THEN Expunge(srcBoxes, selected.src) ELSE srcBoxes
            /\ dstBoxes' = IF k = "dst" THEN Expunge(dstBoxes, selected.dst) ELSE dstBoxes
            /\ pc' = pc
         [] St(k) = "AUTH" ->
            /\ cmd' = Cmd(k, "LOGOUT", "", 0, "OK")
            /\ mail' = [mail EXCEPT ![k].imap = "LOGOUT"]
            /\ pc' = IF k = "src" THEN "disconnect_dst" ELSE "end_pair"
            /\ UNCHANGED <<selected, srcBoxes, dstBoxes>>
         [] OTHER ->
            /\ cmd' = NoCmd
            /\ pc' = IF k = "src" THEN "disconnect_dst" ELSE "end_pair"
            /\ UNCHANGED <<mail, selected, srcBoxes, dstBoxes>>
    /\ UNCHANGED <<pair, attempts, timeout, args, loc, rc, tryState, world, faultsLeft, deliveriesLeft, hist>>

\* start lines 952-953: the next pair of credentials, or the end of the run
EndPair ==
    /\ pc = "end_pair"
    /\ IF pair < NPairs
       THEN pair' = pair + 1 /\ pc' = "connect_src"
       ELSE pair' = pair /\ pc' = "finished"
    /\ cmd' = NoCmd
    /\ UNCHANGED <<attempts, timeout, args, mail, loc, rc, tryState, world, srcBoxes,
                   dstBoxes,
                   selected, faultsLeft, deliveriesLeft, hist>>

\* somebody else delivers a message to the mailbox the destination session has
\* selected, between the APPEND and the SEARCH ALL of _store_flags (a delivery at
\* another moment does not change which message the engine addresses)
Deliver ==
    /\ pc = "store_search"
    /\ deliveriesLeft > 0
    /\ selected.dst # 0
    /\ deliveriesLeft' = deliveriesLeft - 1
    /\ dstBoxes' = [dstBoxes EXCEPT ![selected.dst].msgs =
                        Append(@, DstMsg(ExternalMsg, ServerNow, {}))]
    /\ cmd' = NoCmd
    /\ UNCHANGED <<pc, pair, attempts, timeout, args, mail, loc, rc, tryState, world,
                   srcBoxes, selected, faultsLeft, hist>>

\* the steps after which the process is gone
Ended == {"finished", "exited", "crashed", "interrupted"}

\* __init__ lines 245-247: a KeyboardInterrupt raised anywhere under start unwinds
\* to the except clause, which logs script_interrupted and calls sys.exit(); the
\* sessions are left as they are
Interrupt ==
    /\ pc \notin Ended \cup {"configure"}
    /\ pc' = "interrupted"
    /\ loc' = NoLoc
    /\ rc' = [retpc |-> "", attempt |-> 0]
    /\ tryState' = "begin"
    /\ cmd' = NoCmd
    /\ hist' = [NoHist EXCEPT !.migrated = hist.migrated, !.drops = hist.drops]
    /\ UNCHANGED <<pair, attempts, timeout, args, mail, world, srcBoxes, dstBoxes, selected,
                   faultsLeft, deliveriesLeft>>

\* sys.exit(*arg): the exit status of the process; <<>> is the call without an
\* argument
SysExit(arg) == IF arg = <<>> THEN 0 ELSE arg[1]

\* the exit status of the process once it has ended: start returned (0),
\* _reconnect line 420, __init__ line 247, or an exception nothing catches
ExitStatus ==
    CASE pc = "finished" -> 0
      [] pc = "exited" -> SysExit(<<1>>)
      [] pc = "interrupted" -> SysExit(<<>>)
      [] pc = "crashed" -> 1

Next ==
    \/ SetTimeout
    \/ Start
    \/ ConnectSrc
    \/ ConnectDst
    \/ GetMailboxesInfo("src")
    \/ GetMailboxesInfo("dst")
    \/ MigrateNextMailbox
    \/ SetSrcMailbox
    \/ Reselect
    \/ GetAllMessages
    \/ MigrateFindFoldername
    \/ SetDstMailbox
    \/ SetDstMailboxCreate
    \/ MigrateNextMessage
    \/ FetchHeader
    \/ MessageExists
    \/ FetchMessage
    \/ AppendMessage
    \/ FetchFlags
    \/ StoreFlagsSearch
    \/ StoreFlagsStore
    \/ ReconnectAttempt
    \/ ReconnectExit
    \/ Disconnect("src")
    \/ Disconnect("dst")
    \/ EndPair
    \/ Deliver
    \/ Interrupt

Spec == Init /\ [][Next]_vars

SpecRetry == InitRetry /\ [][Next]_vars

SpecNames == InitNames /\ [][Next]_vars

SpecTimeout == InitTimeout /\ [][Next]_vars

\* the engine is a sequential program that runs on: some step is taken whenever one
\* can be
SpecCreate == InitCreate /\ [][Next]_vars /\ WF_vars(Next)

(***************************************************************************)
(* Properties.                                                              *)
(***************************************************************************)
\* no server has given an irregular answer and nobody else has delivered mail
Undisturbed == faultsLeft = MaxFaults /\ deliveriesLeft = MaxDeliveries

\* the loop over the source mailboxes of the current pair has ended without quota
\* exhaustion, and _disconnect has not closed the source session yet
RunCompleted ==
    /\ pc = "disconnect_src"
    /\ mail.src.all_mailboxes # <<>>
    /\ St("src") # "LOGOUT"
    /\ ~loc.break_all_loop

\* the destination folder the namespace resolver maps source mailbox b to
MappedFolder(b) ==
    FindFoldername(BareName(mail.src.all_mailboxes[b], mail.src.separator),
                   mail.src.prefix, mail.src.separator, mail.dst.prefix,
                   mail.dst.separator, mail.dst.all_mailboxes, Worlds[world].dstHost)

\* content t is the only source message with its Message-ID
UniqueMessageId(t) ==
    Cardinality({bi \in {<<b, i>> : b \in 1..Len(srcBoxes), i \in 1..2 * Len(MsgPool)} :
                    /\ bi[2] <= Len(srcBoxes[bi[1]].msgs)
                    /\ MsgPool[srcBoxes[bi[1]].msgs[bi[2]].tpl].mid = MsgPool[t].mid}) = 1

\* the internal date the Date header of content t asks for
ParsedDate(t) ==
    IF MsgPool[t].date.kind = "ok"
    THEN StampedAt(Instant(MsgPool[t].date.wall, MsgPool[t].date.tz))
    ELSE ServerNow

\* C1: a body FETCH, an APPEND or a STORE is issued for a message only after the
\* existence probe for that message succeeded and returned an empty result
C1_AppendOnlyAfterEmptyProbe ==
    (cmd.c \in {"APPEND", "STORE"} \/ (cmd.c = "FETCH" /\ cmd.arg = "BODY.PEEK[]"))
        => hist.probe = "empty"

\* C2: a message that a run of the pair appended is skipped by a later run of the
\* same pair: the later run stores no second copy of it
C2_SecondRunSkipsMigrated ==
    (pair > 1 /\ cmd.c = "APPEND" /\ cmd.res \in {"OK", "ABORT_STORED"})
        => ~\E g \in hist.migrated :
                g.pair < pair /\ g.box = loc.src_mailbox /\ g.tpl = cmd.tgt

\* after an APPEND answered [OVERQUOTA] the pair issues only CLOSE and LOGOUT
QuotaTeardownOnly ==
    hist.quota =>
        /\ pc \in {"next_message", "next_mailbox", "disconnect_src", "disconnect_dst",
                   "end_pair", "connect_src", "finished"}
        /\ \/ cmd.c \in {"NONE", "CLOSE", "LOGOUT"}
           \/ cmd.c = "APPEND" /\ cmd.res = "OVERQUOTA" /\ pc = "next_message"

\* the pair after one that ran out of quota is started, unless the user interrupts
\* the run
QuotaNextPair ==
    (hist.quota /\ pc = "end_pair" /\ pair < NPairs)
        => \/ pc' = "connect_src" /\ pair' = pair + 1
           \/ pc' = "interrupted"

\* C3: an APPEND answered [OVERQUOTA] ends the pair at once, with no further FETCH,
\* SEARCH, APPEND or STORE but only the teardown of the sessions, and the next pair
\* of the configuration is started
C3_QuotaEndsPair == []QuotaTeardownOnly /\ [][QuotaNextPair]_vars

\* C3, witness: the first pair ran out of quota with messages of the mailbox left,
\* and the engine stands at the start of the second pair
C3_QuotaWitness ==
    /\ hist.quota
    /\ pair = 2
    /\ pc = "connect_src"
    /\ loc.message < loc.all_messages

\* C4: when the processing of a pair whose two sessions were opened has ended, both
\* sessions have been logged out
C4_LogoutOnEveryEnding ==
    (hist.opened /\ pc \in {"end_pair", "exited"})
        => (St("src") = "LOGOUT" /\ St("dst") = "LOGOUT")

\* C5: after an undisturbed run, every source message with a unique Message-ID in a
\* mailbox the iterator does not filter is in the mapped destination folder, and
\* the copy the engine appended bears the internal date its Date header denotes
\* (the server's own date when the header is missing or unparseable)
C5_MessagePreservation ==
    (RunCompleted /\ Undisturbed) =>
        \A b \in 1..Len(srcBoxes) :
            ~MailboxNotCopied(mail.src.all_mailboxes[b]) =>
                \A i \in 1..Len(srcBoxes[b].msgs) :
                    LET t == srcBoxes[b].msgs[i].tpl
                        d == BoxIndex(dstBoxes, MappedFolder(b))
                    IN  UniqueMessageId(t) =>
                            /\ d # 0
                            /\ \E j \in 1..Len(dstBoxes[d].msgs) :
                                /\ dstBoxes[d].msgs[j].tpl = t
                                /\ (\E g \in hist.migrated : g.tpl = t)
                                      => dstBoxes[d].msgs[j].idate = ParsedDate(t)

\* C6: the reconnect attempts made on behalf of one operation number at most
\* self._attempts
C6_ReconnectBound == hist.opReconn <= attempts

\* C7: once the flag step of an appended message is over, the destination message
\* has the source message's flags without \Recent, or a flag failure was logged
C7_FlagPreservation ==
    (pc = "next_message" /\ hist.appended.box # 0) =>
        \/ dstBoxes[hist.appended.box].msgs[hist.appended.pos].flags
              = srcBoxes[loc.box].msgs[loc.message].flags \ {FlagRecent}
        \/ hist.flagLog

\* C8: the STORE of the flag step addresses a destination message whose Message-ID
\* is that of the message just appended
C8_StoreTargetsAppended ==
    cmd.c = "STORE" =>
        MsgPool[dstBoxes[selected.dst].msgs[cmd.tgt].tpl].mid = MsgPool[loc.header].mid

\* C9: after an undisturbed run, the destination has the folder the namespace
\* resolver maps each source mailbox to that is not marked \Noselect, \All or
\* \Flagged, whether the mailbox holds messages or not
C9_FolderCoverage ==
    (RunCompleted /\ Undisturbed) =>
        \A b \in 1..Len(srcBoxes) :
            (\A a \in {Noselect, AttrAll, AttrFlagged} : ~HasAttr(srcBoxes[b], a))
                => BoxIndex(dstBoxes, MappedFolder(b)) # 0

\* C10: no command that changes a mailbox is issued on the source session, and the
\* source mailboxes hold the messages and flags they held before the run
C10_NoSourceMutation ==
    /\ cmd.s = "src" =>
          /\ cmd.c \notin {"STORE", "APPEND", "CREATE"}
          /\ cmd.c = "FETCH" => cmd.arg \in {"BODY.PEEK[HEADER]", "BODY.PEEK[]", "FLAGS"}
    /\ srcBoxes = Worlds[world].src

\* every irregular event so far was a connection drop during a FETCH on the source,
\* and the reconnect that followed succeeded
Recovered ==
    /\ hist.drops >= 1
    /\ MaxFaults - faultsLeft = hist.drops
    /\ deliveriesLeft = MaxDeliveries
    /\ pc \notin {"reconnect", "exited"}

\* no destination mailbox holds two messages of the same content
NoDuplicate ==
    \A d \in 1..Len(dstBoxes) : \A i, j \in 1..Len(dstBoxes[d].msgs) :
        dstBoxes[d].msgs[i].tpl = dstBoxes[d].msgs[j].tpl => i = j

\* message m of a source mailbox is in destination mailbox d exactly once, and the
\* copy the engine appended has the flags and the date an undisturbed run gives it
HandledOnce(m, d) ==
    /\ d # 0
    /\ Cardinality({j \in 1..Len(dstBoxes[d].msgs) : dstBoxes[d].msgs[j].tpl = m.tpl}) = 1
    /\ \A j \in 1..Len(dstBoxes[d].msgs) :
          (dstBoxes[d].msgs[j].tpl = m.tpl /\ \E g \in hist.migrated : g.tpl = m.tpl)
              => /\ dstBoxes[d].msgs[j].flags = ParseFlags(m.flags)
                 /\ dstBoxes[d].msgs[j].idate = InternalDate(Received(MsgPool[m.tpl].date))

\* C11: when the connection drops during the FETCH of a message and the reconnect
\* succeeds, the run neither stops nor appends a message twice, and at the end of
\* the pair every message of every mailbox the iterator visits is at the
\* destination exactly once, as after a run without the drop
C11_DropThenRecover ==
    Recovered =>
        /\ pc # "crashed"
        /\ NoDuplicate
        /\ RunCompleted =>
              \A b \in 1..Len(srcBoxes) :
                  ~MailboxNotCopied(mail.src.all_mailboxes[b]) =>
                      \A i \in 1..Len(srcBoxes[b].msgs) :
                          HandledOnce(srcBoxes[b].msgs[i],
                                      BoxIndex(dstBoxes, MappedFolder(b)))

\* C11, witness: a pair ended after a drop during a FETCH that was recovered from,
\* with messages appended in that pair
C11_DropWitness ==
    /\ Recovered
    /\ RunCompleted
    /\ pair = 1
    /\ \E g \in hist.migrated : g.pair = 1

\* C12: the process ends with status 0 when every pair was processed, 1 when the
\* reconnect attempts were exhausted and 130 when the user interrupted the run
C12_ExitStatus ==
    /\ pc = "finished" => ExitStatus = 0
    /\ pc = "exited" => ExitStatus = 1
    /\ pc = "interrupted" => ExitStatus = 130

\* what _get_mailboxes_info stores in a session
SessionInfo(m) ==
    [all_mailboxes |-> m.all_mailboxes, separator |-> m.separator, prefix |-> m.prefix]

\* the step that has just been taken is a LIST of session k the server answered OK
\* and whose first line held a separator
Listed(k) == cmd.c = "LIST" /\ cmd.s = k /\ cmd.res = "OK" /\ pc # "crashed"

\* right after a successful LIST the three fields hold what the answer said
InfoSetByList ==
    \A k \in {"src", "dst"} :
        Listed(k) =>
            /\ mail[k].all_mailboxes # <<>>
            /\ mail[k].all_mailboxes =
                  ListResponse(Boxes(k), IF k = "src" THEN Worlds[world].srcSep
                                         ELSE Worlds[world].dstSep)
            /\ mail[k].separator \in {"/", "."}
            /\ mail[k].prefix \in {PrefixInbox, <<>>}

\* no step of the pair changes the three fields of a session whose LIST succeeded
InfoKept ==
    \A k \in {"src", "dst"} :
        (mail[k].all_mailboxes # <<>> /\ pc # "connect_src")
            => SessionInfo(mail'[k]) = SessionInfo(mail[k])

\* C13: once LIST has succeeded for a session, its separator, prefix and
\* all_mailboxes are set and keep their values until the pair ends, through every
\* _reconnect included
C13_SessionInfoStable == []InfoSetByList /\ [][InfoKept]_vars

\* both sessions were listed and a _reconnect has just re-authenticated them
C13_ReconnectWitness ==
    /\ cmd.c = "LOGIN" /\ cmd.arg = "reconnect" /\ cmd.res = "OK"
    /\ mail.src.all_mailboxes # <<>>
    /\ mail.dst.all_mailboxes # <<>>
    /\ mail.src.imap = "AUTH" /\ mail.dst.imap = "AUTH"

\* the mailbox being visited is the one the source LIST gave at that position, and
\* every FETCH addresses the sequence number being visited
VisitsAsListed ==
    /\ (loc.box > 0 /\ ~MailboxNotCopied(mail.src.all_mailboxes[loc.box]))
          => loc.src_mailbox = BareName(mail.src.all_mailboxes[loc.box], mail.src.separator)
    /\ cmd.c = "FETCH" => cmd.tgt = loc.message /\ loc.message \in 1..loc.all_messages

\* one step: the pair moves on by one and only from the end of the pair before; the
\* mailbox moves on by one and only from the head of the mailbox loop; the message
\* moves on by one and only once the message before is finished; a step of
\* _reconnect moves none of them
OrderKept ==
    /\ pair' = pair \/ (pair' = pair + 1 /\ pc = "end_pair")
    /\ \/ loc' = NoLoc
       \/ loc'.box = loc.box
       \/ loc'.box = loc.box + 1 /\ pc = "next_mailbox" /\ loc'.message = 0
    /\ (loc' # NoLoc /\ loc'.box = loc.box)
          => \/ loc'.message = loc.message
             \/ loc'.message = loc.message + 1 /\ pc = "next_message"
    /\ (pc = "reconnect" /\ pc' # "interrupted") => loc' = loc /\ pair' = pair

\* C14: pairs run one after another in configuration order, the source mailboxes
\* of a pair are visited in LIST order, the messages of a mailbox in ascending
\* sequence number, one finished before the next starts, and reconnects do not
\* change this order
C14_Ordering == []VisitsAsListed /\ [][OrderKept]_vars

\* the second pair, reconnected in the middle of the second message of a mailbox,
\* after the first pair went through its first and its second mailbox
C14_OrderWitness ==
    /\ pair = 2 /\ loc.box >= 1 /\ loc.message >= 2
    /\ \E g \in hist.migrated : g.pair = 1 /\ g.box = INBOX
    /\ \E g \in hist.migrated : g.pair = 1 /\ g.box = PrefixInbox \o Work
    /\ cmd.c = "LOGIN" /\ cmd.arg = "reconnect" /\ cmd.res = "OK"
    /\ pc \in FetchStepsOfMessage

\* the namespaces _get_mailboxes_info found on the two servers of the Gmail world
GmailNamespaces ==
    /\ mail.src.separator = "." /\ mail.src.prefix = PrefixInbox
    /\ mail.dst.separator = "/" /\ mail.dst.prefix = <<>>

\* C15: from a source with separator "." and prefix INBOX. to a Gmail destination
\* with separator "/", no prefix and [Gmail]/Sent Mail marked \Sent,
\* _find_foldername maps INBOX to INBOX, INBOX.Work.2023 to Work/2023 and
\* INBOX.Sent to the name of the \Sent folder as LIST printed it,
\* "[Gmail]/Sent Mail" in its double quotes
C15_GmailMapping ==
    (world = GmailWorld /\ pc = "set_dst") =>
        /\ GmailNamespaces
        /\ loc.src_mailbox = INBOX => loc.dst_mailbox = INBOX
        /\ loc.src_mailbox = PrefixInbox \o LabelSent
              => loc.dst_mailbox = Quoted(GmailTag \o <<"/">> \o SentMail)
        /\ loc.src_mailbox = PrefixInbox \o Work \o <<".">> \o Year
              => loc.dst_mailbox = Work \o <<"/">> \o Year

\* the mapping of INBOX.Sent has been computed
C15_SentWitness ==
    /\ world = GmailWorld /\ pc = "set_dst"
    /\ loc.src_mailbox = PrefixInbox \o LabelSent
    /\ loc.dst_mailbox # <<>>

\* C15 as first stated: INBOX.Sent is mapped to Sent Mail
C15_SentMailBare ==
    (world = GmailWorld /\ pc = "set_dst") =>
        /\ GmailNamespaces
        /\ loc.src_mailbox = INBOX => loc.dst_mailbox = INBOX
        /\ loc.src_mailbox = PrefixInbox \o LabelSent => loc.dst_mailbox = SentMail
        /\ loc.src_mailbox = PrefixInbox \o Work \o <<".">> \o Year
              => loc.dst_mailbox = Work \o <<"/">> \o Year

\* the step just taken is a turn of _reconnect
ReconnectStep == cmd.c = "LOGIN" /\ cmd.arg = "reconnect"

\* self._timeout and the wait _reconnect made of it stay within TIMEOUT_MAX
TimeoutWithinMax ==
    /\ timeout <= TIMEOUT_MAX
    /\ hist.wait <= TIMEOUT_MAX
    /\ ReconnectStep => hist.wait = Sleep(timeout)

\* self._timeout changes only before the pairs are processed, to the value that was
\* asked for, or to TIMEOUT_MAX when that value is above it
TimeoutCapStep ==
    timeout' # timeout =>
        /\ pc = "configure"
        /\ LET asked == IF pc' = "configure" THEN Head(args.values).v
                        ELSE IntOf(args.timeout)
           IN  timeout' = IF asked > TIMEOUT_MAX THEN TIMEOUT_MAX ELSE asked

\* C16: after any assignments to the timeout property and any --timeout handled by
\* start, self._timeout and so the wait before each reconnect attempt is at most
\* TIMEOUT_MAX; a value above it is replaced by TIMEOUT_MAX
C16_TimeoutCapped == []TimeoutWithinMax /\ [][TimeoutCapStep]_vars

\* a run started with --timeout above TIMEOUT_MAX has waited TIMEOUT_MAX seconds in
\* _reconnect
C16_CappedWaitWitness ==
    /\ ReconnectStep
    /\ IsDigit(args.timeout) /\ IntOf(args.timeout) > TIMEOUT_MAX
    /\ hist.wait = TIMEOUT_MAX

\* C17: inside _reconnect the first attempt whose re-authentication fails ends the
\* retry loop: every turn of the loop is the first one of its _reconnect call, no
\* attempt follows a failed one
C17_FailedReauthEndsLoop == ReconnectStep => cmd.tgt = 1

\* C18: when the destination has answered NO or BAD to the CREATE that followed a
\* refused SELECT, _set_dst_mailbox comes to an end and the engine goes on with the
\* next source mailbox (or the run ends)
C18_CreateRefusedSkipsFolder ==
    (cmd.c = "CREATE" /\ cmd.res \in {"NO", "BAD"}) ~> (pc = "next_mailbox" \/ pc \in Ended)

\* C19: an APPEND answered NO or BAD without [OVERQUOTA] is logged and the engine
\* goes on with the next message of the folder: no quota exhaustion is recorded,
\* no flag step is run for the message, and neither the pair nor the run ends
C19_AppendRefusedContinues ==
    (cmd.c = "APPEND" /\ cmd.res \in {"NO", "BAD"})
        => (pc = "next_message" /\ ~loc.break_all_loop /\ ~hist.quota)

\* the steps of the wrapped operation that issued the last command: the head of
\* its "while True" loop and what the loop body runs
WrappedOperation ==
    CASE cmd.c = "LIST" -> {"list_" \o cmd.s}
      [] cmd.c = "SELECT" /\ cmd.s = "src" ->
            {"set_src", "get_all", "fetch_header", "fetch_message", "fetch_flags"}
      [] cmd.c = "SELECT" /\ cmd.s = "dst" ->
            {"set_dst", "message_exists", "append", "store_search"}
      [] cmd.c = "CREATE" -> {"set_dst", "create_dst"}
      [] cmd.c = "SEARCH" /\ cmd.s = "src" -> {"get_all"}
      [] cmd.c = "SEARCH" /\ cmd.arg = "ALL" /\ cmd.s = "dst" -> {"store_search"}
      [] cmd.c = "SEARCH" /\ cmd.arg # "ALL" -> {"message_exists"}
      [] cmd.c = "FETCH" /\ cmd.arg = "BODY.PEEK[HEADER]" -> {"fetch_header"}
      [] cmd.c = "FETCH" /\ cmd.arg = "BODY.PEEK[]" -> {"fetch_message"}
      [] cmd.c = "FETCH" /\ cmd.arg = "FLAGS" -> {"fetch_flags"}
      [] cmd.c = "APPEND" -> {"append"}
      [] cmd.c = "STORE" -> {"store_search", "store"}
      [] OTHER -> {}

\* C20: a command answered with a tagged NO or BAD is not retried: no _reconnect
\* follows it and the loop of the operation that issued it is not run again for the
\* same message or folder
C20_RefusalNotRetried ==
    cmd.res \in {"NO", "BAD"}
        => /\ pc # "reconnect"
           /\ ~(pc \in WrappedOperation /\ tryState = "begin")

\* the attribute set of a mailbox holds \Noselect, \All or \Flagged
MarkedNotCopied(box) ==
    \E i \in 1..Len(box.attrs) : box.attrs[i] \in {Noselect, AttrAll, AttrFlagged}

\* the mailbox loop moves on to an entry: it passes over it at once if and only if
\* the entry is marked \Noselect, \All or \Flagged
SkipStep ==
    (pc = "next_mailbox" /\ loc'.box = loc.box + 1)
        => (pc' = "next_mailbox" <=> MarkedNotCopied(srcBoxes[loc'.box]))

\* C21: a source LIST entry is skipped if and only if its attributes contain
\* \Noselect, \All or \Flagged as a whole attribute; an entry with only other
\* attributes (\HasNoChildren, \Sent, \Archive, ...) is selected and processed
C21_SkipIffMarked == [][SkipStep]_vars

\* C22: when connecting or authenticating a session at the start of a pair fails,
\* whatever the failure (DNS, refused, TLS handshake, rejected login), the engine
\* goes to the teardown of the sessions it opened, having issued no mailbox
\* command, and from there to the next pair
C22_ConnectFailureNextPair ==
    (cmd.c = "LOGIN" /\ cmd.arg = "" /\ cmd.res # "OK")
        => (pc = "disconnect_src" /\ selected = [src |-> 0, dst |-> 0])

\* C23: when the user has interrupted the run, the sessions of the pair that was
\* being processed have been closed and logged out before the process ended
C23_InterruptClosesSessions ==
    pc = "interrupted" => \A k \in {"src", "dst"} : St(k) \in {"NONE", "LOGOUT"}

\* the header of a message lacks Message-ID, or its Date is missing or unparseable
HeaderAnomaly(t) == MsgIdOf(MsgPool[t].mid) = <<>> \/ MsgPool[t].date.kind # "ok"

\* C24: a source message whose header lacks Message-ID, or whose Date is missing or
\* unparseable, or both, is finished by its degradation path and never ends the
\* run, every command being answered regularly
C24_HeaderAnomaliesDegrade ==
    (Undisturbed /\ loc.header # 0 /\ HeaderAnomaly(loc.header)) => pc # "crashed"

\* the folder being processed on a session
CurrentFolder(k) == IF k = "src" THEN loc.src_mailbox ELSE loc.dst_mailbox

\* a SEARCH, FETCH or STORE was issued on a session that was SELECTED on the
\* folder being processed
IssuedWhenSelected ==
    cmd.c \in {"SEARCH", "FETCH", "STORE"} =>
        /\ St(cmd.s) = "SELECTED"
        /\ selected[cmd.s] # 0
        /\ selected[cmd.s] = BoxIndex(Boxes(cmd.s), CurrentFolder(cmd.s))

\* a successful _reconnect leaves two new connections, authenticated and with no
\* mailbox selected
ReconnectedFresh ==
    (ReconnectStep /\ cmd.res = "OK") =>
        /\ St("src") = "AUTH" /\ St("dst") = "AUTH"
        /\ selected = [src |-> 0, dst |-> 0]

\* C25: after a successful reconnect both sessions are new connections, and every
\* SEARCH, FETCH or STORE, the retried one included, is issued on a session that is
\* SELECTED on the folder being processed
C25_SelectedBeforeCommand == IssuedWhenSelected /\ ReconnectedFresh

\* the FETCH of the first header was cut, the sessions were reconnected, and the
\* FETCH issued again was answered
C25_RetriedFetchWitness ==
    /\ hist.drops = 1 /\ pair = 1 /\ loc.box = 1 /\ loc.message = 1
    /\ cmd.c = "FETCH" /\ cmd.arg = "BODY.PEEK[HEADER]" /\ cmd.res = "OK"
    /\ St("src") = "SELECTED" /\ St("dst") = "AUTH"

\* the LIST line of the source folder being processed
SrcLine == mail.src.all_mailboxes[loc.box]

\* C26: when the source mailbox carries a special-use label in its LIST attributes
\* or in its name and a destination LIST entry carries the same label, the mapped
\* destination name is the bare name of a destination entry that carries it
C26_SpecialUsePriority ==
    pc = "set_dst" =>
        \A k \in 1..Len(LabelDefault) :
            (/\ HasLabel(SrcLine, LabelDefault[k])
             /\ \E i \in 1..Len(mail.dst.all_mailboxes) :
                    HasLabel(mail.dst.all_mailboxes[i], LabelDefault[k]))
            => \E i \in 1..Len(mail.dst.all_mailboxes) :
                    /\ HasLabel(mail.dst.all_mailboxes[i], LabelDefault[k])
                    /\ loc.dst_mailbox =
                           BareName(mail.dst.all_mailboxes[i], mail.dst.separator)

\* a call of _find_foldername returns a folder name to _migrate, which goes on to
\* select it on the destination
FindFoldernameReturns ==
    (pc = "find_foldername" /\ pc' # "interrupted") =>
        (pc' = "set_dst" /\ loc'.dst_mailbox # <<>>)

\* C29: _find_foldername is total: for every source mailbox name and every
\* destination LIST output it returns a destination folder name and the pair
\* continues; it never ends the run with an unhandled error
C29_FindFoldernameTotal == [][FindFoldernameReturns]_vars

\* the copies of content t in mailbox d of a list of mailboxes
Copies(boxes, d, t) ==
    Cardinality({j \in 1..Len(boxes[d].msgs) : boxes[d].msgs[j].tpl = t})

\* the copies of content t that mailbox d of the destination gained since the run
\* began; a mailbox the run created began empty
Gained(d, t) ==
    Copies(dstBoxes, d, t)
        - (IF d <= Len(Worlds[world].dst) THEN Copies(Worlds[world].dst, d, t) ELSE 0)

\* C30: while the first pair of the run is processed, no source message has been
\* stored in a destination mailbox more than once, whatever ABORT and reconnect
\* happened, an APPEND cut after the server stored the message included
C30_StoredAtMostOnce ==
    pair = 1 =>
        \A d \in 1..Len(dstBoxes) : \A t \in 1..(ExternalMsg - 1) : Gained(d, t) <= 1

\* the connections the pair holds: the imap objects of the two sessions that are
\* not logged out, and the working connections _reconnect replaced without LOGOUT
OpenConnections ==
    Cardinality({k \in {"src", "dst"} : St(k) \in {"AUTH", "SELECTED"}}) + hist.leaked

\* C27: every connection the engine opens is released with LOGOUT, the ones
\* _reconnect replaces or abandons included: a pair never holds more than two open
\* connections, and none once _disconnect is over
C27_ConnectionsReleased ==
    /\ OpenConnections <= 2
    /\ pc = "end_pair" => OpenConnections = 0

\* the step just taken is an _auth_server that the server refused
AuthenticationFailed ==
    cmd.c = "LOGIN" /\ cmd.res \in {"NO", "SRC_FAILED", "DST_FAILED"}

\* C28: an authentication failure, at the start of a pair or inside a reconnect
\* attempt, deletes the token file of an OAUTH2 credential and no file of a password
\* credential, and the pair is abandoned for the next one: _disconnect comes next
C28_AuthFailureAbortsPair ==
    AuthenticationFailed =>
        /\ OAuth2(cmd.s) => cmd.s \in hist.removed
        /\ ~OAuth2(cmd.s) => cmd.s \notin hist.removed
        /\ pc = "disconnect_src"

\* one step of _reconnect, the user's interrupt aside: it returns to the wrapped
\* operation after a wait of the full timeout and an attempt in which both sessions
\* were authenticated, or it goes on to the next attempt after such a wait, or,
\* with no attempt left, it ends the process with status 1
ReconnectOutcome ==
    (pc = "reconnect" /\ pc' # "interrupted") =>
        \/ /\ rc.attempt <= attempts
           /\ pc' = rc.retpc
           /\ cmd'.res = "OK"
           /\ mail'.src.imap = "AUTH" /\ mail'.dst.imap = "AUTH"
           /\ selected' = [src |-> 0, dst |-> 0]
           /\ hist'.wait = Sleep(timeout)
        \/ /\ rc.attempt <= attempts
           /\ pc' = "reconnect"
           /\ rc'.attempt = rc.attempt + 1
           /\ hist'.wait = Sleep(timeout)
        \/ /\ rc.attempt > attempts
           /\ pc' = "exited"
           /\ ExitStatus' = 1

\* C31: _reconnect returns to its caller only when the source and the destination
\* were both authenticated in the same attempt; otherwise it ends the process with
\* status 1 after the last attempt, at once when there is none; before every
\* attempt it waits the full timeout
C31_ReconnectReturnsOrExits == [][ReconnectOutcome]_vars

====
